---- MODULE Spec2Model ----
(***************************************************************************)
(* Verification model of the scholarx search API's query constraint core:  *)
(*   helpers/countries.py     country normalizer and its lookup table      *)
(*   helpers/query_parser.py  LLM-backed query understanding with failover *)
(*   helpers/filters.py       compilation of constraints to a Qdrant filter*)
(*                                                                         *)
(* Strings are sequences of tokens.  A token is a word in one of three     *)
(* letter cases (lower, UPPER, Title) or a single whitespace character, so *)
(* that str.lower, str.title, str.strip and the two regular expressions of *)
(* countries.py are computed on the text and not assumed.                  *)
(***************************************************************************)
EXTENDS Integers, Sequences, FiniteSets, TLC

None == [none |-> TRUE]      \* Python's None
Some(v) == [some |-> v]      \* a value that is not None

VARIABLES
    registry,      \* pycountry.countries: the sequence of country records
    fuzzy,         \* pycountry.countries.search_fuzzy, as a fixed function
    LOOKUP,        \* countries._LOOKUP: lowercase key -> canonical name
    call_count,    \* query_parser._call_count
    req,           \* the understand_query calls in progress, by request slot
    started,       \* the primary provider of every _call_llm call, in start order
    last           \* the last normalizer / compiler call: its input and output

vars == <<registry, fuzzy, LOOKUP, call_count, req, started, last>>

(***************************************************************************)
(* Text                                                                    *)
(***************************************************************************)
L(w) == <<"l", w>>          \* the word w in lower case:  usa
U(w) == <<"u", w>>          \* the word w in upper case:  USA
T(w) == <<"t", w>>          \* the word w in title case:  Usa
SP == <<"s", " ">>          \* one whitespace character

\* str.lower()
lower(s) == [i \in 1..Len(s) |-> IF s[i] = SP THEN SP ELSE L(s[i][2])]

\* str.title()
title(s) == [i \in 1..Len(s) |-> IF s[i] = SP THEN SP ELSE T(s[i][2])]

RECURSIVE lstrip(_)
lstrip(s) == IF s # <<>> /\ Head(s) = SP THEN lstrip(Tail(s)) ELSE s

RECURSIVE rstrip(_)
rstrip(s) ==
    IF s # <<>> /\ s[Len(s)] = SP THEN rstrip(SubSeq(s, 1, Len(s) - 1)) ELSE s

\* str.strip()
strip(s) == rstrip(lstrip(s))

\* _WHITESPACE.sub(" ", s): every run of whitespace becomes one space
RECURSIVE WHITESPACE_sub(_)
WHITESPACE_sub(s) ==
    IF Len(s) < 2 THEN s
    ELSE IF s[1] = SP /\ s[2] = SP THEN WHITESPACE_sub(Tail(s))
    ELSE <<s[1]>> \o WHITESPACE_sub(Tail(s))

\* _STRIP_ARTICLE.sub("", s): drop a leading "the" and the whitespace after it
STRIP_ARTICLE_sub(s) ==
    IF Len(s) >= 2 /\ lower(<<s[1]>>) = <<L("the")>> /\ s[2] = SP
    THEN lstrip(Tail(s))
    ELSE s

(***************************************************************************)
(* The hand-curated alias table (an excerpt of _CUSTOM_ALIASES, in the     *)
(* dict's order) and the registry records of pycountry the model draws on. *)
(***************************************************************************)
CUSTOM_ALIASES ==
    << [canonical |-> <<U("usa")>>,
        aliases |-> << <<L("usa")>>, <<L("us")>>, <<L("america")>>,
                       <<L("united"), SP, L("states")>>,
                       <<L("united"), SP, L("states"), SP, L("of"), SP, L("america")>>,
                       <<L("the"), SP, L("united"), SP, L("states")>> >>],
       [canonical |-> <<T("russia")>>,
        aliases |-> << <<L("russia")>>,
                       <<L("russian"), SP, L("federation")>>,
                       <<L("the"), SP, L("russian"), SP, L("federation")>> >>] >>

Country(name, official_name, common_name, alpha_2, alpha_3) ==
    [name |-> name, official_name |-> official_name, common_name |-> common_name,
     alpha_2 |-> alpha_2, alpha_3 |-> alpha_3]

\* An attribute the record does not have is the empty string (getattr default
\* None and "" are both falsy in `if _alt`).
RU == Country(<<T("russian"), SP, T("federation")>>, <<>>, <<>>,
              <<U("ru")>>, <<U("rus")>>)
US == Country(<<T("united"), SP, T("states")>>,
              <<T("united"), SP, T("states"), SP, L("of"), SP, T("america")>>, <<>>,
              <<U("us")>>, <<U("usa")>>)
EG == Country(<<T("egypt")>>,
              <<T("arab"), SP, T("republic"), SP, L("of"), SP, T("egypt")>>, <<>>,
              <<U("eg")>>, <<U("egy")>>)
VN == Country(<<T("viet"), SP, T("nam")>>, <<>>, <<T("vietnam")>>,
              <<U("vn")>>, <<U("vnm")>>)

Registries == { <<RU>>, <<VN, US>>, <<EG, RU, US>> }

(***************************************************************************)
(* countries.py, module level: building _LOOKUP                            *)
(***************************************************************************)
EmptyTable == [k \in {} |-> <<>>]

\* _LOOKUP[key] = val
SetKey(table, key, val) == (key :> val) @@ table

\* if key not in _LOOKUP: _LOOKUP[key] = val
AddIfAbsentOverwrites(table, key, val) == (key :> val) @@ table
AddIfAbsent(table, key, val) ==
    IF key \in DOMAIN table THEN table ELSE table @@ (key :> val)

RECURSIVE AddAliases(_, _, _)
AddAliases(table, canonical, aliases) ==
    IF aliases = <<>> THEN table
    ELSE AddAliases(SetKey(table, lower(Head(aliases)), canonical),
                    canonical, Tail(aliases))

RECURSIVE LoadCustom(_, _)
LoadCustom(table, custom) ==
    IF custom = <<>> THEN table
    ELSE LET e == Head(custom)
         IN LoadCustom(AddAliases(SetKey(table, lower(e.canonical), e.canonical),
                                  e.canonical, e.aliases),
                       Tail(custom))

LoadCountry(table, c) ==
    LET t1 == AddIfAbsent(table, lower(c.name), c.name)
        t2 == IF c.official_name # <<>>
              THEN AddIfAbsent(t1, lower(c.official_name), c.name) ELSE t1
        t3 == IF c.common_name # <<>>
              THEN AddIfAbsent(t2, lower(c.common_name), c.name) ELSE t2
        t4 == AddIfAbsent(t3, lower(c.alpha_2), c.name)
    IN AddIfAbsent(t4, lower(c.alpha_3), c.name)

RECURSIVE LoadRegistry(_, _)
LoadRegistry(table, reg) ==
    IF reg = <<>> THEN table
    ELSE LoadRegistry(LoadCountry(table, Head(reg)), Tail(reg))

CustomLookup == LoadCustom(EmptyTable, CUSTOM_ALIASES)

BuildLookup(reg) == LoadRegistry(CustomLookup, reg)

(***************************************************************************)
(* countries.py: normalize_country, normalize_countries                    *)
(***************************************************************************)
\* The strings pycountry's fuzzy search can resolve in this model (it lowercases
\* its query, so it is a function of the lowercase text).  Every other string
\* makes it raise LookupError.
FuzzyKeys == { <<L("rusia")>>, <<L("the"), SP, L("rusia")>> }

\* pycountry.countries.search_fuzzy(cleaned): the names of the countries found,
\* best first, or the exception raised
search_fuzzy(cleaned) ==
    LET q == lower(cleaned)
    IN IF q \in FuzzyKeys /\ fuzzy[q] # 0
       THEN [exc |-> "", results |-> <<registry[fuzzy[q]].name>>]
       ELSE [exc |-> "LookupError", results |-> <<>>]

Returned(ret, table) == [ret |-> ret, table |-> table, exc |-> ""]
Raised(exc, table) == [ret |-> <<>>, table |-> table, exc |-> exc]

\* except LookupError: pass
CaughtNothing(exc) == FALSE
Caught(exc) == exc = "LookupError"

\* found = results[0].name; canonical = _LOOKUP.get(found.lower(), found)
ResolveFound(table, found) ==
    IF lower(found) \in DOMAIN table THEN table[lower(found)] ELSE found

\* step 3 of normalize_country: s is what the fuzzy search gave
fuzzy_step_caches_echo(cleaned, key, s, table) ==
    IF s.exc = "" /\ s.results # <<>>
    THEN Returned(ResolveFound(table, s.results[1]),
                  SetKey(table, key, ResolveFound(table, s.results[1])))
    ELSE IF s.exc = "" \/ Caught(s.exc)
    THEN Returned(title(cleaned), SetKey(table, key, title(cleaned)))
    ELSE Raised(s.exc, table)
fuzzy_step(cleaned, key, s, table) ==
    IF s.exc = "" /\ s.results # <<>>
    THEN Returned(ResolveFound(table, s.results[1]),
                  SetKey(table, key, ResolveFound(table, s.results[1])))
    ELSE IF s.exc = "" \/ Caught(s.exc) THEN Returned(title(cleaned), table)
    ELSE Raised(s.exc, table)

\* steps 1 and 2 of normalize_country, on the cleaned name and its keys
lookup_step(cleaned, key, stripped, table) ==
    IF key \in DOMAIN table THEN Returned(table[key], table)
    ELSE IF stripped \in DOMAIN table THEN Returned(table[stripped], table)
    ELSE fuzzy_step(cleaned, key, search_fuzzy(cleaned), table)

cleaned_of(name) == WHITESPACE_sub(strip(name))

normalize_country(name, table) ==
    IF name = <<>> THEN Returned(name, table)
    ELSE lookup_step(cleaned_of(name), lower(cleaned_of(name)),
                     strip(STRIP_ARTICLE_sub(lower(cleaned_of(name)))), table)

\* if n not in seen: seen.add(n); result.append(n)
AppendAlways(result, seen, n) == Append(result, n)
AppendUnseen(result, seen, n) == IF n \notin seen THEN Append(result, n) ELSE result

\* the loop of normalize_countries: seen is the set, result the list, r what
\* normalize_country returned for the entry at hand
RECURSIVE normalize_each(_, _, _, _)
RECURSIVE normalize_rest(_, _, _, _)
normalize_rest(rest, seen, result, r) ==
    IF r.exc # "" THEN Raised(r.exc, r.table)
    ELSE normalize_each(rest, seen \cup {r.ret}, AppendUnseen(result, seen, r.ret),
                        r.table)

normalize_each(countries, seen, result, table) ==
    IF countries = <<>> THEN Returned(result, table)
    ELSE normalize_rest(Tail(countries), seen, result,
                        normalize_country(Head(countries), table))

list_returned(r) == IF r.exc # "" THEN r ELSE Returned(Some(r.ret), r.table)

\* countries is None or Some(list)
normalize_countries(countries, table) ==
    IF countries = None THEN Returned(None, table)
    ELSE list_returned(normalize_each(countries.some, {}, <<>>, table))

Reqs == {1, 2}

\* a request slot no understand_query call is using
Idle == [pc |-> "idle", cancelled |-> FALSE, user_query |-> <<>>, primary_idx |-> 0, calls |-> <<>>,
         inflight |-> {}, failed |-> 0, response |-> 0, result |-> [kind |-> "none"]]

(***************************************************************************)
(* The normalizer as a state machine: the table is built at import, then   *)
(* callers normalize names and lists of names.                             *)
(***************************************************************************)
MaxList == 2

Inputs ==
    { <<>>,
      <<U("usa")>>, <<L("usa")>>, <<SP, U("us"), SP>>, <<T("america")>>,
      <<T("united"), SP, SP, T("states")>>,
      <<T("the"), SP, T("united"), SP, T("states"), SP, L("of"), SP, T("america")>>,
      <<T("russia")>>, <<T("russian"), SP, T("federation")>>,
      <<U("ru")>>, <<L("rus")>>,
      <<T("egypt")>>, <<L("the"), SP, SP, L("egypt")>>, <<U("eg")>>,
      <<T("viet"), SP, T("nam")>>, <<L("vietnam")>>,
      <<L("rusia")>>, <<T("the"), SP, T("rusia")>>,
      <<L("xyz")>>, <<SP, L("the"), SP, SP, U("xyz")>> }

ListElems ==
    { <<U("usa")>>, <<L("us")>>, <<L("rusia")>>, <<L("the"), SP, L("rusia")>> }

RECURSIVE ListsUpTo(_)
ListsUpTo(n) ==
    IF n = 0 THEN { <<>> }
    ELSE LET shorter == ListsUpTo(n - 1)
         IN shorter \cup { Append(l, e) : l \in { x \in shorter : Len(x) = n - 1 },
                                          e \in ListElems }

Lists == { None } \cup { Some(l) : l \in ListsUpTo(MaxList) }

InitNormalizer ==
    /\ registry \in Registries
    /\ fuzzy \in [FuzzyKeys -> 0..Len(registry)]
    /\ LOOKUP = BuildLookup(registry)
    /\ last = [op |-> "none"]
    /\ call_count = 0
    /\ req = [r \in Reqs |-> Idle]
    /\ started = <<>>

NormalizeCountry ==
    \E name \in Inputs :
        LET r == normalize_country(name, LOOKUP)
        IN /\ LOOKUP' = r.table
           /\ last' = [op |-> "normalize_country", arg |-> name, ret |-> r.ret,
                       exc |-> r.exc, before |-> LOOKUP]
           /\ UNCHANGED <<registry, fuzzy, call_count, req, started>>

NormalizeCountries ==
    \E countries \in Lists :
        LET r == normalize_countries(countries, LOOKUP)
        IN /\ LOOKUP' = r.table
           /\ last' = [op |-> "normalize_countries", arg |-> countries,
                       ret |-> r.ret, exc |-> r.exc, before |-> LOOKUP]
           /\ UNCHANGED <<registry, fuzzy, call_count, req, started>>

NextNormalizer == NormalizeCountry \/ NormalizeCountries

SpecNormalizer == InitNormalizer /\ [][NextNormalizer]_vars

(***************************************************************************)
(* JSON documents and Python values.  A value carries its type tag; a dict *)
(* is the sequence of its <<key, value>> pairs in insertion order.         *)
(***************************************************************************)
JNull == [t |-> "null"]
JBool(b) == [t |-> "bool", v |-> b]
JNum(n) == [t |-> "int", v |-> n]              \* an integral number
JFrac(tenths) == [t |-> "float", v |-> tenths] \* 3.2 is JFrac(32)
JStr(s) == [t |-> "str", v |-> s]
JList(l) == [t |-> "list", v |-> l]
JObj(pairs) == [t |-> "dict", v |-> pairs]

\* bool(x)
truthy(j) ==
    CASE j.t = "null" -> FALSE
      [] j.t = "bool" -> j.v
      [] j.t \in {"int", "float"} -> j.v # 0
      [] OTHER -> j.v # <<>>

has_key(d, k) == \E i \in 1..Len(d.v) : d.v[i][1] = k

\* d.get(k, default)
dict_get(d, k, default) ==
    IF has_key(d, k) THEN d.v[CHOOSE i \in 1..Len(d.v) : d.v[i][1] = k][2]
    ELSE default

\* x or []        x or {}
or_list(j) == IF truthy(j) THEN j ELSE JList(<<>>)
or_dict(j) == IF truthy(j) THEN j ELSE JObj(<<>>)

\* the letters of the words a provider may give where a list belongs
Spelling == ("usa" :> <<"u", "s", "a">>) @@ ("eg" :> <<"e", "g">>)

RECURSIVE chars(_)
chars(s) ==
    IF s = <<>> THEN <<>>
    ELSE (IF Head(s) = SP THEN <<JStr(<<SP>>)>>
          ELSE [i \in 1..Len(Spelling[Head(s)[2]]) |->
                   JStr(<< <<IF i > 1 /\ Head(s)[1] = "t" THEN "l" ELSE Head(s)[1],
                             Spelling[Head(s)[2]][i]>> >>)])
         \o chars(Tail(s))

\* int("16"), float("3.2"): the numeric strings of the model
IntWords == ("16" :> 16) @@ ("18" :> 18) @@ ("0" :> 0)
BoolWords == ("true" :> TRUE) @@ ("false" :> FALSE) @@ ("yes" :> TRUE) @@ ("no" :> FALSE)
OneWord(s, words) == Len(s) = 1 /\ s[1] # SP /\ s[1][2] \in DOMAIN words

(***************************************************************************)
(* pydantic validation (lax mode) of the fields of QueryConstraints and    *)
(* ParsedQuery                                                             *)
(***************************************************************************)
Valid(v) == [ok |-> TRUE, v |-> v]
Invalid == [ok |-> FALSE]

\* List[str]
validate_str_list(j) ==
    IF j.t = "list" /\ \A i \in 1..Len(j.v) : j.v[i].t = "str"
    THEN Valid([i \in 1..Len(j.v) |-> j.v[i].v])
    ELSE Invalid

\* float, in tenths
validate_float(j) ==
    CASE j.t = "int" -> Valid(10 * j.v)
      [] j.t = "float" -> Valid(j.v)
      [] j.t = "bool" -> Valid(IF j.v THEN 10 ELSE 0)
      [] j.t = "str" /\ OneWord(j.v, IntWords) -> Valid(10 * IntWords[j.v[1][2]])
      [] OTHER -> Invalid

\* int
validate_int(j) ==
    CASE j.t = "int" -> Valid(j.v)
      [] j.t = "float" /\ j.v % 10 = 0 -> Valid(j.v \div 10)
      [] j.t = "bool" -> Valid(IF j.v THEN 1 ELSE 0)
      [] j.t = "str" /\ OneWord(j.v, IntWords) -> Valid(IntWords[j.v[1][2]])
      [] OTHER -> Invalid

\* bool
validate_bool(j) ==
    CASE j.t = "bool" -> Valid(j.v)
      [] j.t = "int" /\ j.v \in {0, 1} -> Valid(j.v = 1)
      [] j.t = "str" /\ OneWord(j.v, BoolWords) -> Valid(BoolWords[j.v[1][2]])
      [] OTHER -> Invalid

\* Optional[T] = None
validate_optional(j, r) == IF j.t = "null" THEN Valid(None) ELSE
                           IF r.ok THEN Valid(Some(r.v)) ELSE Invalid

\* Dict[str, float]
validate_float_dict(j) ==
    IF j.t = "dict" /\ \A i \in 1..Len(j.v) : validate_float(j.v[i][2]).ok
    THEN Valid([i \in 1..Len(j.v) |-> <<j.v[i][1], validate_float(j.v[i][2]).v>>])
    ELSE Invalid

\* str
validate_str(j) == IF j.t = "str" THEN Valid(j.v) ELSE Invalid

\* QueryConstraints(): every field at its default
EmptyConstraints ==
    [subtype |-> <<>>, category |-> <<>>, country |-> <<>>, fund_type |-> <<>>,
     target_segment |-> <<>>, documents_not_required |-> <<>>,
     language_score_requirements |-> <<>>, eligible_nationalities |-> <<>>,
     is_remote |-> None, min_age |-> None, max_age |-> None, gpa |-> None,
     has_document_requirements |-> None, has_language_requirements |-> None,
     has_fee |-> None]

(***************************************************************************)
(* query_parser.py: one provider attempt of _call_llm, from the awaited    *)
(* response to the ParsedQuery or the exception                            *)
(***************************************************************************)
Failed(exc, table) == [exc |-> exc, table |-> table]
Parsed(semantic_query, constraints, table) ==
    [exc |-> "", table |-> table,
     parsed |-> [semantic_query |-> semantic_query, constraints |-> constraints]]

\* for c in countries: what the loop of normalize_countries iterates over
iterate(j) ==
    CASE j.t = "list" -> Valid(j.v)
      [] j.t = "str" -> Valid(chars(j.v))
      [] j.t = "dict" -> Valid([i \in 1..Len(j.v) |-> JStr(j.v[i][1])])
      [] OTHER -> Invalid

hashable(j) == j.t \notin {"list", "dict"}

RECURSIVE until_unhashable(_)
until_unhashable(items) ==
    IF items = <<>> \/ ~hashable(Head(items)) THEN <<>>
    ELSE <<Head(items)>> \o until_unhashable(Tail(items))

RECURSIVE strings_of(_)
strings_of(items) ==
    IF items = <<>> THEN <<>>
    ELSE (IF Head(items).t = "str" THEN <<Head(items).v>> ELSE <<>>)
         \o strings_of(Tail(items))

\* normalize_countries(value) on whatever the provider gave: the list of
\* names when every item is a string; otherwise the call raises TypeError (not
\* iterable, or an unhashable item) or returns a list pydantic rejects.
\* items are the items iterated, reached those before the first unhashable one,
\* r what normalizing the strings among them returned.
normalized_items(items, reached, r) ==
    IF r.exc # "" THEN [exc |-> r.exc, table |-> r.table]
    ELSE IF Len(reached) < Len(items) THEN [exc |-> "TypeError", table |-> r.table]
    ELSE IF \E i \in 1..Len(reached) : reached[i].t # "str"
         THEN [exc |-> "", table |-> r.table, value |-> Invalid]
    ELSE [exc |-> "", table |-> r.table, value |-> Valid(r.ret.some)]

normalize_items(items, reached, table) ==
    normalized_items(items, reached,
                     normalize_countries(Some(strings_of(reached)), table))

normalize_iterated(it, table) ==
    IF ~it.ok THEN [exc |-> "TypeError", table |-> table]
    ELSE normalize_items(it.v, until_unhashable(it.v), table)

normalize_value(j, table) == normalize_iterated(iterate(j), table)

\* category = filters.get("category"), a bare string wrapped, a falsy one emptied
wrap_category_unwrapped(category) ==
    IF ~truthy(category) THEN JList(<<>>) ELSE category
wrap_category(category) ==
    IF truthy(category) /\ category.t = "str" THEN JList(<<category>>)
    ELSE IF ~truthy(category) THEN JList(<<>>)
    ELSE category

category_of(filters) == wrap_category(dict_get(filters, "category", JNull))

get_list(filters, k) == validate_str_list(or_list(dict_get(filters, k, JNull)))
get_bool(filters, k) ==
    validate_optional(dict_get(filters, k, JNull),
                      validate_bool(dict_get(filters, k, JNull)))
get_int(filters, k) ==
    validate_optional(dict_get(filters, k, JNull),
                      validate_int(dict_get(filters, k, JNull)))
get_float(filters, k) ==
    validate_optional(dict_get(filters, k, JNull),
                      validate_float(dict_get(filters, k, JNull)))

\* the keyword arguments of QueryConstraints(...), each validated
fields_of(filters, country, eligible_nationalities) ==
    [subtype |-> get_list(filters, "subtype"),
     category |-> validate_str_list(category_of(filters)),
     country |-> country,
     fund_type |-> get_list(filters, "fund_type"),
     target_segment |-> get_list(filters, "target_segment"),
     documents_not_required |-> get_list(filters, "documents_not_required"),
     language_score_requirements |->
         validate_float_dict(or_dict(dict_get(filters, "language_score_requirements",
                                              JNull))),
     eligible_nationalities |-> eligible_nationalities,
     is_remote |-> get_bool(filters, "is_remote"),
     min_age |-> get_int(filters, "min_age"),
     max_age |-> get_int(filters, "max_age"),
     gpa |-> get_float(filters, "gpa"),
     has_document_requirements |-> get_bool(filters, "has_document_requirements"),
     has_language_requirements |-> get_bool(filters, "has_language_requirements"),
     has_fee |-> get_bool(filters, "has_fee")]

\* QueryConstraints(**fields), then ParsedQuery(semantic_query=..., constraints=...)
validated(fields, semantic_query, table) ==
    IF \E k \in DOMAIN fields : ~fields[k].ok THEN Failed("ValidationError", table)
    ELSE IF ~semantic_query.ok THEN Failed("ValidationError", table)
    ELSE Parsed(semantic_query.v, [k \in DOMAIN fields |-> fields[k].v], table)

with_nationalities(data, filters, user_query, country, nats) ==
    IF nats.exc # "" THEN Failed(nats.exc, nats.table)
    ELSE validated(fields_of(filters, country.value, nats.value),
                   validate_str(dict_get(data, "semantic_query", JStr(user_query))),
                   nats.table)

with_country(data, filters, user_query, country) ==
    IF country.exc # "" THEN Failed(country.exc, country.table)
    ELSE with_nationalities(
             data, filters, user_query, country,
             normalize_value(or_list(dict_get(filters, "eligible_nationalities", JNull)),
                             country.table))

\* lines 305-332: the arguments are evaluated in order, country before
\* eligible_nationalities, and the models are validated last
build_parsed(data, filters, user_query, table) ==
    with_country(data, filters, user_query,
                 normalize_value(or_list(dict_get(filters, "country", JNull)), table))

\* The body of the try block for one provider: the call raises, or returns
\* text that json.loads rejects, or returns a JSON document.
with_filters(data, filters, user_query, table) ==
    IF filters.t # "dict" THEN Failed("AttributeError", table)
    ELSE build_parsed(data, filters, user_query, table)

attempt(response, user_query, table) ==
    IF response.kind = "error" THEN Failed("APIError", table)
    ELSE IF response.kind = "text" THEN Failed("JSONDecodeError", table)
    ELSE IF response.doc.t # "dict" THEN Failed("AttributeError", table)
    ELSE with_filters(response.doc, dict_get(response.doc, "filters", JObj(<<>>)),
                      user_query, table)

(***************************************************************************)
(* query_parser.py: _call_llm and understand_query as a state machine.     *)
(* Requests run on one event loop: a step runs from one await to the next. *)
(***************************************************************************)
MaxCalls == 3

Queries == { <<L("masters"), SP, L("in"), SP, L("usa")>>, <<L("phd")>> }

Doc(pairs) == [kind |-> "json", doc |-> JObj(pairs)]
Word(w) == JStr(<<L(w)>>)

\* What a provider call can come back with.
Responses ==
    << [kind |-> "error"],                                  \* the call raises
       [kind |-> "text"],                                   \* not JSON
       [kind |-> "json", doc |-> JList(<<Word("masters")>>)],
       Doc(<< <<"semantic_query", Word("masters")>>, <<"filters", JNull>> >>),
       Doc(<< <<"semantic_query", Word("masters")>>, <<"filters", Word("none")>> >>),
       Doc(<< <<"semantic_query", JNull>>, <<"filters", JObj(<<>>)>> >>),
       Doc(<< <<"semantic_query", Word("study")>>,
              <<"filters", JObj(<< <<"subtype", Word("masters")>> >>)>> >>),
       Doc(<< <<"semantic_query", Word("camp")>>,
              <<"filters", JObj(<< <<"min_age", Word("16")>> >>)>> >>),
       Doc(<< <<"semantic_query", Word("study")>>,
              <<"filters", JObj(<< <<"country", JStr(<<U("usa")>>)>> >>)>> >>),
       Doc(<< <<"semantic_query", Word("masters")>>,
              <<"filters",
                JObj(<< <<"subtype", JList(<<Word("masters")>>)>>,
                        <<"category", Word("academic")>>,
                        <<"country", JList(<<JStr(<<T("united"), SP, T("states")>>),
                                             JStr(<<U("usa")>>)>>)>>,
                        <<"fund_type", JList(<<Word("fully_funded")>>)>>,
                        <<"has_language_requirements", JBool(FALSE)>>,
                        <<"gpa", JFrac(32)>> >>)>> >>),
       Doc(<<>>),
       Doc(<< <<"semantic_query", Word("study")>>,
              <<"filters",
                JObj(<< <<"language_score_requirements",
                          JObj(<< <<<<U("ielts")>>, JFrac(65)>>,
                                  <<<<L("toefl")>>, JNum(90)>> >>)>> >>)>> >>),
       Doc(<< <<"semantic_query", JStr(<<>>)>>,
              <<"filters", JObj(<< <<"subtype", JList(<<Word("phd")>>)>> >>)>> >>),
       Doc(<< <<"semantic_query", Word("camp")>>,
              <<"filters",
                JObj(<< <<"category", JList(<<Word("non_academic"), Word("academic")>>)>>,
                        <<"subtype", JNull>>,
                        <<"country", JNull>>,
                        <<"language_score_requirements", JNull>>,
                        <<"gpa", JNull>>,
                        <<"has_fee", JNull>> >>)>> >>),
       Doc(<< <<"semantic_query", Word("camp")>>,
              <<"filters",
                JObj(<< <<"category", JStr(<<>>)>>,
                        <<"eligible_nationalities", JNull>>,
                        <<"documents_not_required", JNull>>,
                        <<"min_age", JNull>> >>)>> >>),
       Doc(<< <<"filters",
                JObj(<< <<"category", JNull>>,
                        <<"fund_type", JNull>>,
                        <<"is_remote", JNull>> >>)>> >>),
       Doc(<< <<"semantic_query", Word("camp")>>,
              <<"filters",
                JObj(<< <<"category", Word("non_academic")>>,
                        <<"target_segment", JNull>>,
                        <<"max_age", JNull>>,
                        <<"has_document_requirements", JNull>>,
                        <<"has_language_requirements", JNull>> >>)>> >>) >>

\* primary_idx = _call_count % 2
primary_idx_always_first(count) == 0
primary_idx_of(count) == count % 2

\* _call_count += 1
next_call_count(count) == count + 1

\* for idx in [primary_idx, 1 - primary_idx]
retry_primary(primary_idx) == <<primary_idx, 1 - primary_idx, primary_idx>>
providers_in_order(primary_idx) == <<primary_idx, 1 - primary_idx>>

\* except Exception as e: ... continue
except_only_api_errors(exc) == exc = "APIError"
except_BaseException(exc) == TRUE
except_Exception(exc) ==
    exc \in {"APIError", "JSONDecodeError", "AttributeError", "TypeError",
             "ValidationError", "LookupError"}

\* understand_query's fallback: ParsedQuery(semantic_query=user_query,
\* constraints=QueryConstraints())
fallback_without_query(user_query) ==
    [semantic_query |-> <<>>, constraints |-> EmptyConstraints]
fallback(user_query) ==
    [semantic_query |-> user_query, constraints |-> EmptyConstraints]

Init ==
    /\ registry = <<EG, RU, US>>
    /\ fuzzy = [k \in FuzzyKeys |-> 0]
    /\ LOOKUP = BuildLookup(registry)
    /\ call_count = 0
    /\ req = [r \in Reqs |-> Idle]
    /\ started = <<>>
    /\ last = [op |-> "none"]

\* understand_query(user_query) up to the first await of _call_llm: the counter
\* is read and advanced, and the call to the primary provider is issued.
Understand(r) ==
    \E user_query \in Queries :
        LET primary_idx == primary_idx_of(call_count)
        IN /\ req[r].pc = "idle"
           /\ call_count < MaxCalls
           /\ call_count' = next_call_count(call_count)
           /\ started' = Append(started, primary_idx)
           /\ req' = [req EXCEPT ![r] =
                        [Idle EXCEPT !.pc = "awaiting",
                                     !.user_query = user_query,
                                     !.primary_idx = primary_idx,
                                     !.calls = <<providers_in_order(primary_idx)[1]>>,
                                     !.inflight = {providers_in_order(primary_idx)[1]}]]
           /\ UNCHANGED <<registry, fuzzy, LOOKUP, last>>

\* The awaited provider call of request r completes with some response; the
\* code runs to the next await or to understand_query's return.
after_attempt(rq, idx, i, out) ==
    LET order == providers_in_order(rq.primary_idx)
        seen == [rq EXCEPT !.response = i, !.inflight = @ \ {idx}]
    IN IF out.exc = ""
       THEN [seen EXCEPT !.pc = "done",
                         !.result = [kind |-> "returned", value |-> out.parsed,
                                     provider |-> idx, degraded |-> FALSE]]
       ELSE IF ~except_Exception(out.exc)
       THEN [seen EXCEPT !.pc = "done",
                         !.result = [kind |-> "raised", exc |-> out.exc]]
       ELSE IF Len(rq.calls) < Len(order)
       THEN [seen EXCEPT !.failed = @ + 1,
                         !.calls = Append(@, order[Len(rq.calls) + 1]),
                         !.inflight = (rq.inflight \ {idx}) \cup {order[Len(rq.calls) + 1]}]
       ELSE [seen EXCEPT !.failed = @ + 1,
                         !.pc = "done",
                         !.result = [kind |-> "returned",
                                     value |-> fallback(rq.user_query),
                                     provider |-> idx, degraded |-> TRUE]]

Responded(r, idx, i, out) ==
    /\ LOOKUP' = out.table
    /\ req' = [req EXCEPT ![r] = after_attempt(@, idx, i, out)]
    /\ UNCHANGED <<registry, fuzzy, call_count, started, last>>

Respond(r) ==
    \E idx \in req[r].inflight, i \in 1..Len(Responses) :
        /\ req[r].pc = "awaiting"
        /\ Responded(r, idx, i, attempt(Responses[i], req[r].user_query, LOOKUP))

\* understand_query has returned and its caller is gone: the slot is free
Finish(r) ==
    /\ req[r].pc = "done"
    /\ req' = [req EXCEPT ![r] = Idle]
    /\ UNCHANGED <<registry, fuzzy, LOOKUP, call_count, started, last>>

Next == \E r \in Reqs : Understand(r) \/ Respond(r) \/ Finish(r)

Spec == Init /\ [][Next]_vars

\* The caller cancels request r while its provider call is in flight: the
\* await raises asyncio.CancelledError inside the try block of _call_llm.
Cancel(r) ==
    /\ req[r].pc = "awaiting"
    /\ \E idx \in req[r].inflight :
           req' = [req EXCEPT ![r] =
                      [after_attempt(@, idx, @.response, Failed("CancelledError", LOOKUP))
                          EXCEPT !.cancelled = TRUE]]
    /\ UNCHANGED <<registry, fuzzy, LOOKUP, call_count, started, last>>

NextCancellable == Next \/ \E r \in Reqs : Cancel(r)

SpecCancellable == Init /\ [][NextCancellable]_vars

(***************************************************************************)
(* filters.py: build_qdrant_filter.  A condition is a record: a match, a   *)
(* range or an is-null test on a payload key, a nested condition, or a     *)
(* Filter with must / should / must_not lists (None when not given).       *)
(***************************************************************************)
MatchValue(key, value) == [type |-> "match", key |-> key, value |-> value]
Range(key, gt, gte, lte) ==
    [type |-> "range", key |-> key, gt |-> gt, gte |-> gte, lte |-> lte]
IsNullCondition(key) == [type |-> "is_null", key |-> key]
Filter(must, should, must_not) ==
    [type |-> "filter", must |-> must, should |-> should, must_not |-> must_not]
NestedCondition(key, filter) == [type |-> "nested", key |-> key, filter |-> filter]

\* QueryConstraints.model_dump().items(): the fields in declaration order
FieldOrder ==
    << "subtype", "category", "country", "fund_type", "target_segment",
       "documents_not_required", "language_score_requirements",
       "eligible_nationalities", "is_remote", "min_age", "max_age", "gpa",
       "has_document_requirements", "has_language_requirements", "has_fee" >>

\* the Python type of a dumped field, from its declaration
is_list(field) ==
    field \in {"subtype", "category", "country", "fund_type", "target_segment",
               "documents_not_required", "eligible_nationalities"}
is_dict(field) == field = "language_score_requirements"
is_bool(field) ==
    field \in {"is_remote", "has_document_requirements", "has_language_requirements",
               "has_fee"}

\* value is None or (list and len == 0) or (dict and len == 0): continue
skipped_when_falsy(field, value) ==
    IF is_list(field) \/ is_dict(field) THEN value = <<>>
    ELSE value = None \/ value = Some(FALSE)
skipped(field, value) ==
    IF is_list(field) \/ is_dict(field) THEN value = <<>> ELSE value = None

Conditions(must, must_not) == [must |-> must, must_not |-> must_not]

\* documents_not_required: one must_not match per document
documents_conditions_first_only(value) ==
    Conditions(<<>>, <<MatchValue("documents_required", value[1])>>)
documents_conditions(value) ==
    Conditions(<<>>, [i \in 1..Len(value) |-> MatchValue("documents_required", value[i])])

\* language_score_requirements: one must_not nested condition per exam
exam_condition_gte(exam_name, user_score) ==
    NestedCondition("exam_scores",
                    Filter(Some(<< MatchValue("name", lower(exam_name)),
                                   Range("score", None, Some(user_score), None) >>),
                           None, None))
exam_condition(exam_name, user_score) ==
    NestedCondition("exam_scores",
                    Filter(Some(<< MatchValue("name", lower(exam_name)),
                                   Range("score", Some(user_score), None, None) >>),
                           None, None))

language_conditions(value) ==
    Conditions(<<>>, [i \in 1..Len(value) |-> exam_condition(value[i][1], value[i][2])])

\* eligible_nationalities: "all" or any of the given ones
nationality_conditions_listed_only(value) ==
    Conditions(<< Filter(None,
                         Some([i \in 1..Len(value) |->
                                  MatchValue("eligible_nationalities", value[i])]),
                         None) >>,
               <<>>)
nationality_conditions(value) ==
    Conditions(<< Filter(None,
                         Some(<<MatchValue("eligible_nationalities", <<L("all")>>)>>
                              \o [i \in 1..Len(value) |->
                                     MatchValue("eligible_nationalities", value[i])]),
                         None) >>,
               <<>>)

\* the other list fields
list_conditions_first_only(field, value) ==
    Conditions(<<MatchValue(field, value[1])>>, <<>>)
list_conditions(field, value) ==
    IF Len(value) = 1 THEN Conditions(<<MatchValue(field, value[1])>>, <<>>)
    ELSE Conditions(<< Filter(None,
                              Some([i \in 1..Len(value) |-> MatchValue(field, value[i])]),
                              None) >>,
                    <<>>)

bool_conditions(field, value) == Conditions(<<MatchValue(field, value)>>, <<>>)

\* min_age: the opportunity's min_age <= the user's age, or null
min_age_conditions(value) ==
    Conditions(<< Filter(None,
                         Some(<< Range("min_age", None, None, Some(value)),
                                 IsNullCondition("min_age") >>),
                         None) >>,
               <<>>)

\* max_age: the opportunity's max_age >= the user's age, or null
max_age_conditions(value) ==
    Conditions(<< Filter(None,
                         Some(<< Range("max_age", None, Some(value), None),
                                 IsNullCondition("max_age") >>),
                         None) >>,
               <<>>)

\* gpa: 0 <= the opportunity's gpa <= the user's gpa, or null
gpa_conditions(value) ==
    Conditions(<< Filter(None,
                         Some(<< Range("gpa", None, Some(0), Some(value)),
                                 IsNullCondition("gpa") >>),
                         None) >>,
               <<>>)

\* the body of the loop for one populated field
field_conditions(field, value) ==
    CASE field = "documents_not_required" -> documents_conditions(value)
      [] field = "language_score_requirements" -> language_conditions(value)
      [] field = "eligible_nationalities" -> nationality_conditions(value)
      [] is_list(field) /\ field \notin {"documents_not_required", "eligible_nationalities"}
             -> list_conditions(field, value)
      [] is_bool(field) -> bool_conditions(field, value.some)
      [] field = "min_age" -> min_age_conditions(value.some)
      [] field = "max_age" -> max_age_conditions(value.some)
      [] field = "gpa" -> gpa_conditions(value.some)

\* for field, value in constraints.model_dump().items()
RECURSIVE collect(_, _, _, _)
more_must_only(constraints, fields, found, got) ==
    collect(constraints, fields, found.must \o got.must, found.must_not)
more(constraints, fields, found, got) ==
    collect(constraints, fields, found.must \o got.must, found.must_not \o got.must_not)

collect(constraints, fields, must, must_not) ==
    IF fields = <<>> THEN Conditions(must, must_not)
    ELSE IF skipped(Head(fields), constraints[Head(fields)])
    THEN collect(constraints, Tail(fields), must, must_not)
    ELSE more(constraints, Tail(fields), Conditions(must, must_not),
              field_conditions(Head(fields), constraints[Head(fields)]))

\* if not must_conditions and not must_not_conditions: return None
\* return Filter(must=... or None, must_not=... or None)
always_a_filter(found) ==
    Some(Filter(IF found.must # <<>> THEN Some(found.must) ELSE None, None,
                IF found.must_not # <<>> THEN Some(found.must_not) ELSE None))
filter_of(found) ==
    IF found.must = <<>> /\ found.must_not = <<>> THEN None
    ELSE Some(Filter(IF found.must # <<>> THEN Some(found.must) ELSE None, None,
                     IF found.must_not # <<>> THEN Some(found.must_not) ELSE None))

build_qdrant_filter(constraints) ==
    filter_of(collect(constraints, FieldOrder, <<>>, <<>>))

(***************************************************************************)
(* The search backend applying a filter to one stored point.  A payload    *)
(* is a record of stored fields; a field is Absent (the payload has no     *)
(* such key), Null, one Stored value or a StoredList of values.  Qdrant's  *)
(* is_null condition matches a key that is stored with the value null; a   *)
(* payload without the key is matched by is_empty, not by is_null.         *)
(***************************************************************************)
Absent == [p |-> "missing"]
Null == [p |-> "null"]
Stored(v) == [p |-> "value", v |-> v]
StoredList(vs) == [p |-> "list", v |-> vs]

payload_field(payload, key) ==
    IF key \in DOMAIN payload THEN payload[key] ELSE Absent

in_range(cond, x) ==
    /\ cond.gt = None \/ x > cond.gt.some
    /\ cond.gte = None \/ x >= cond.gte.some
    /\ cond.lte = None \/ x <= cond.lte.some

match_holds(cond, stored) ==
    \/ stored.p = "value" /\ stored.v = cond.value
    \/ stored.p = "list" /\ \E i \in 1..Len(stored.v) : stored.v[i] = cond.value

range_holds(cond, stored) ==
    \/ stored.p = "value" /\ in_range(cond, stored.v)
    \/ stored.p = "list" /\ \E i \in 1..Len(stored.v) : in_range(cond, stored.v[i])

is_null_holds(stored) == stored.p = "null"

RECURSIVE condition_holds(_, _)
filter_holds(filter, payload) ==
    /\ filter.must = None
         \/ \A i \in 1..Len(filter.must.some) : condition_holds(filter.must.some[i], payload)
    /\ filter.should = None \/ filter.should.some = <<>>
         \/ \E i \in 1..Len(filter.should.some) :
                condition_holds(filter.should.some[i], payload)
    /\ filter.must_not = None
         \/ \A i \in 1..Len(filter.must_not.some) :
                ~condition_holds(filter.must_not.some[i], payload)

nested_holds(cond, stored) ==
    stored.p = "list" /\ \E i \in 1..Len(stored.v) : filter_holds(cond.filter, stored.v[i])

condition_holds(cond, payload) ==
    CASE cond.type = "match" -> match_holds(cond, payload_field(payload, cond.key))
      [] cond.type = "range" -> range_holds(cond, payload_field(payload, cond.key))
      [] cond.type = "is_null" -> is_null_holds(payload_field(payload, cond.key))
      [] cond.type = "nested" -> nested_holds(cond, payload_field(payload, cond.key))
      [] cond.type = "filter" -> filter_holds(cond, payload)

\* query_points(query_filter = qdrant_filter): None filters nothing
admits(qdrant_filter, payload) ==
    qdrant_filter = None \/ filter_holds(qdrant_filter.some, payload)

(***************************************************************************)
(* The filter compiler as a state machine: the controller compiles the     *)
(* constraints of a parsed query, the backend applies the result to a      *)
(* stored point.                                                           *)
(***************************************************************************)
Ages == {0, 16, 18}

AgeConstraints ==
    { [EmptyConstraints EXCEPT !.min_age = a, !.max_age = b] :
          a \in ({None} \cup { Some(a) : a \in Ages }), b \in ({None} \cup { Some(a) : a \in Ages }) }

PopulatedConstraints ==
    { [EmptyConstraints EXCEPT !.subtype = <<<<L("masters")>>>>,
                               !.category = <<<<L("academic")>>>>,
                               !.country = <<<<U("usa")>>>>,
                               !.fund_type = <<<<L("fully_funded")>>>>,
                               !.gpa = Some(32),
                               !.has_language_requirements = Some(FALSE)],
      [EmptyConstraints EXCEPT !.subtype = <<<<L("masters")>>, <<L("phd")>>>>,
                               !.documents_not_required = <<<<L("cv")>>>>,
                               !.language_score_requirements = <<<<<<U("ielts")>>, 65>>>>,
                               !.eligible_nationalities = <<<<T("egypt")>>>>,
                               !.min_age = Some(16)],
      [EmptyConstraints EXCEPT !.is_remote = Some(FALSE), !.gpa = Some(0)] }

\* the user's exam scores, in tenths: {"IELTS": 6.5}, {"ielts": 6.5, "toefl": 90}
ScoreMaps ==
    { << <<<<U("ielts")>>, 65>> >>,
      << <<<<L("ielts")>>, 65>> >>,
      << <<<<L("ielts")>>, 65>>, <<<<L("toefl")>>, 900>> >> }
ScoreConstraints ==
    { [EmptyConstraints EXCEPT !.language_score_requirements = m] : m \in ScoreMaps }

NationalityConstraints ==
    { [EmptyConstraints EXCEPT !.eligible_nationalities = n] :
          n \in { <<<<T("egypt")>>>>, <<<<T("egypt")>>, <<U("usa")>>>> } }

DocumentConstraints ==
    { [EmptyConstraints EXCEPT !.documents_not_required = d] :
          d \in { <<<<L("cv")>>>>, <<<<L("cv")>>, <<L("transcript")>>>> } }

GpaConstraints ==
    { [EmptyConstraints EXCEPT !.gpa = Some(g)] : g \in {0, 32, 40} }

PlainConstraints ==
    { [EmptyConstraints EXCEPT !.subtype = s, !.country = c, !.fund_type = f] :
          s \in { <<>>, <<<<L("masters")>>>>, <<<<L("masters")>>, <<L("phd")>>>> },
          c \in { <<>>, <<<<U("usa")>>>>, <<<<U("usa")>>, <<T("egypt")>>>> },
          f \in { <<>>, <<<<L("fully_funded")>>>> } }

BoolConstraints ==
    { [EmptyConstraints EXCEPT !.is_remote = r, !.has_fee = f] :
          r \in ({None, Some(TRUE), Some(FALSE)}), f \in ({None, Some(TRUE), Some(FALSE)}) }
    \cup { [EmptyConstraints EXCEPT !.has_document_requirements = d,
                                    !.has_language_requirements = l] :
               d \in ({None, Some(TRUE), Some(FALSE)}), l \in ({None, Some(TRUE), Some(FALSE)}) }

ConstraintInputs ==
    AgeConstraints \cup PopulatedConstraints \cup ScoreConstraints
    \cup NationalityConstraints \cup DocumentConstraints \cup GpaConstraints
    \cup PlainConstraints \cup BoolConstraints

\* a stored point none of whose payload keys is set
NoFields ==
    [min_age |-> Absent, max_age |-> Absent, gpa |-> Absent, exam_scores |-> Absent,
     eligible_nationalities |-> Absent, documents_required |-> Absent,
     subtype |-> Absent, category |-> Absent, country |-> Absent,
     fund_type |-> Absent, target_segment |-> Absent,
     is_remote |-> Absent, has_fee |-> Absent]

AgeCandidates ==
    { [NoFields EXCEPT !.min_age = a, !.max_age = b] : a \in ({Absent, Null} \cup { Stored(a) : a \in Ages }), b \in ({Absent, Null} \cup { Stored(a) : a \in Ages }) }

\* one record of the nested exam_scores collection
ExamScore(name, score) == [name |-> Stored(name), score |-> Stored(score)]
ExamCandidates ==
    { [NoFields EXCEPT !.exam_scores = e] :
          e \in { Null, StoredList(<<>>),
                  StoredList(<<ExamScore(<<L("ielts")>>, 70)>>),
                  StoredList(<<ExamScore(<<L("ielts")>>, 65)>>),
                  StoredList(<<ExamScore(<<L("ielts")>>, 60)>>),
                  StoredList(<<ExamScore(<<U("ielts")>>, 70)>>),
                  StoredList(<<ExamScore(<<L("toefl")>>, 1000)>>),
                  StoredList(<<ExamScore(<<L("toefl")>>, 800)>>),
                  StoredList(<<ExamScore(<<L("ielts")>>, 60),
                               ExamScore(<<L("toefl")>>, 1000)>>),
                  StoredList(<<ExamScore(<<L("pte")>>, 70),
                               ExamScore(<<L("ielts")>>, 70)>>) } }

NationalityCandidates ==
    { [NoFields EXCEPT !.eligible_nationalities = n] :
          n \in { StoredList(<<>>), StoredList(<<<<L("all")>>>>),
                  StoredList(<<<<T("egypt")>>, <<T("jordan")>>>>),
                  StoredList(<<<<T("jordan")>>>>),
                  StoredList(<<<<T("jordan")>>, <<U("usa")>>>>) } }

DocumentCandidates ==
    { [NoFields EXCEPT !.documents_required = d] :
          d \in { StoredList(<<>>), StoredList(<<<<L("cv")>>>>),
                  StoredList(<<<<L("transcript")>>>>),
                  StoredList(<<<<L("passport")>>, <<L("cv")>>>>),
                  StoredList(<<<<L("passport")>>>>) } }

GpaCandidates ==
    { [NoFields EXCEPT !.gpa = g] :
          g \in {Null} \cup { Stored(x) : x \in {-10, 0, 30, 32, 35, 40} } }

PlainCandidates ==
    { [NoFields EXCEPT !.subtype = s, !.country = c, !.fund_type = f] :
          s \in { Absent, Stored(<<L("masters")>>), Stored(<<L("phd")>>),
                  Stored(<<L("bachelor")>>) },
          c \in { Stored(<<U("usa")>>), Stored(<<T("jordan")>>),
                  StoredList(<<<<T("egypt")>>, <<T("jordan")>>>>) },
          f \in { Absent, Stored(<<L("fully_funded")>>) } }

BoolCandidates ==
    { [NoFields EXCEPT !.is_remote = r, !.has_fee = f] :
          r \in {Absent, Stored(TRUE), Stored(FALSE)},
          f \in {Stored(TRUE), Stored(FALSE)} }

Candidates ==
    AgeCandidates \cup ExamCandidates \cup NationalityCandidates
    \cup DocumentCandidates \cup GpaCandidates \cup PlainCandidates \cup BoolCandidates

InitCompiler ==
    /\ registry = <<EG, RU, US>>
    /\ fuzzy = [k \in FuzzyKeys |-> 0]
    /\ LOOKUP = BuildLookup(registry)
    /\ call_count = 0
    /\ req = [r \in Reqs |-> Idle]
    /\ started = <<>>
    /\ last = [op |-> "none"]

\* qdrant_filter = build_qdrant_filter(parsed.constraints)
Compile ==
    /\ \E constraints \in ConstraintInputs :
           last' = [op |-> "build_qdrant_filter", constraints |-> constraints,
                    ret |-> build_qdrant_filter(constraints)]
    /\ UNCHANGED <<registry, fuzzy, LOOKUP, call_count, req, started>>

\* hits = await qdrant_store.search(vector, qdrant_filter, limit), seen at one point
Search ==
    /\ last.op = "build_qdrant_filter"
    /\ \E payload \in Candidates :
           last' = [op |-> "search", constraints |-> last.constraints,
                    qdrant_filter |-> last.ret, payload |-> payload,
                    admitted |-> admits(last.ret, payload)]
    /\ UNCHANGED <<registry, fuzzy, LOOKUP, call_count, req, started>>

NextCompiler == Compile \/ Search

SpecCompiler == InitCompiler /\ [][NextCompiler]_vars

(***************************************************************************)
(* routes/opportunities.py and controllers/opportunities.py: the paginated *)
(* listing GET /api/opportunities, against a store holding `total` rows.   *)
(***************************************************************************)
MaxPage == 3
MaxTotal == 12

\* the parameters the controller's list_opportunities declares
list_opportunities_accepts ==
    {"lang", "page", "per_page", "category", "subtype", "country", "fund_type"}

\* math.ceil(total / per_page)
ceil(total, per_page) == (total + per_page - 1) \div per_page

\* controllers.list_opportunities(**keywords): binding the keywords, then the
\* store's page of items and the pagination record
list_opportunities(keywords, page, per_page, total) ==
    IF ~(keywords \subseteq list_opportunities_accepts)
    THEN [exc |-> "TypeError"]
    ELSE [exc |-> "",
          ret |-> [opportunities |-> IF total - (page - 1) * per_page < 0 THEN 0
                                     ELSE IF total - (page - 1) * per_page > per_page
                                     THEN per_page
                                     ELSE total - (page - 1) * per_page,
                   pagination |-> [page |-> page, per_page |-> per_page, total |-> total,
                                   total_pages |-> IF total > 0 THEN ceil(total, per_page)
                                                   ELSE 0]]]

\* the route handler: every declared query parameter is passed on by keyword;
\* any exception becomes a 500 response
get_opportunities(page, per_page, total) ==
    LET result == list_opportunities({"lang", "page", "per_page", "category", "subtype",
                                      "country", "fund_type", "target_segment",
                                      "is_remote", "q"},
                                     page, per_page, total)
    IN IF result.exc = "" THEN [status |-> 200, body |-> result.ret]
       ELSE [status |-> 500, detail |-> "Failed to fetch opportunities."]

InitListing ==
    /\ registry = <<EG, RU, US>>
    /\ fuzzy = [k \in FuzzyKeys |-> 0]
    /\ LOOKUP = BuildLookup(registry)
    /\ call_count = 0
    /\ req = [r \in Reqs |-> Idle]
    /\ started = <<>>
    /\ last = [op |-> "none"]

\* one valid request: page >= 1, 1 <= per_page <= 50
GetOpportunities ==
    /\ \E page \in 1..MaxPage, per_page \in {1, 5, 12, 50}, total \in 0..MaxTotal :
           last' = [op |-> "get_opportunities", page |-> page, per_page |-> per_page,
                    total |-> total,
                    response |-> get_opportunities(page, per_page, total)]
    /\ UNCHANGED <<registry, fuzzy, LOOKUP, call_count, req, started>>

NextListing == GetOpportunities

SpecListing == InitListing /\ [][NextListing]_vars

(***************************************************************************)
(* Properties of query understanding                                       *)
(***************************************************************************)
AllUnconstrained(c) ==
    /\ \A k \in {"subtype", "category", "country", "fund_type", "target_segment",
                 "documents_not_required", "language_score_requirements",
                 "eligible_nationalities"} : c[k] = <<>>
    /\ \A k \in {"is_remote", "min_age", "max_age", "gpa", "has_document_requirements",
                 "has_language_requirements", "has_fee"} : c[k] = None

\* C1: once the primary provider's call has thrown, the secondary provider is
\* the one further call made; once both have thrown, understand has returned
\* the raw query as semantic_query with every structured field empty or absent.
C1_FailoverThenDegrade ==
    \A r \in Reqs :
        /\ req[r].failed >= 1 =>
               req[r].calls = <<req[r].primary_idx, 1 - req[r].primary_idx>>
        /\ req[r].failed = 2 =>
               /\ req[r].pc = "done"
               /\ req[r].result.kind = "returned"
               /\ req[r].result.value.semantic_query = req[r].user_query
               /\ AllUnconstrained(req[r].result.value.constraints)

\* both providers threw for the query "masters in usa"
C1_Witness ==
    \E r \in Reqs :
        /\ req[r].failed = 2
        /\ req[r].pc = "done"
        /\ req[r].user_query = <<L("masters"), SP, L("in"), SP, L("usa")>>
        /\ Len(req[r].calls) = 2

\* C2: an understand call issues at most two provider calls, never two at a time
\* and never twice to one provider; the second is issued only after the first
\* failed, a success of the primary is returned without contacting the
\* secondary, and after a second failure nothing is in flight.
C2_AtMostTwoSequentialCalls ==
    \A r \in Reqs :
        /\ Len(req[r].calls) <= 2
        /\ Cardinality(req[r].inflight) <= 1
        /\ req[r].pc = "awaiting" => req[r].inflight = {req[r].calls[Len(req[r].calls)]}
        /\ req[r].pc = "done" => req[r].inflight = {}
        /\ Len(req[r].calls) = 2 =>
               /\ req[r].calls[1] # req[r].calls[2]
               /\ req[r].failed >= 1
        /\ (req[r].pc = "done" /\ req[r].failed = 0) =>
               /\ req[r].calls = <<req[r].primary_idx>>
               /\ req[r].result.kind = "returned"
               /\ req[r].result.provider = req[r].primary_idx
               /\ ~req[r].result.degraded
        /\ req[r].failed = 2 => req[r].pc = "done"

\* a request answered by the secondary provider after the primary failed
C2_Witness ==
    \E r \in Reqs :
        /\ req[r].pc = "done"
        /\ req[r].failed = 1
        /\ req[r].result.kind = "returned"
        /\ ~req[r].result.degraded
        /\ req[r].result.provider = 1 - req[r].primary_idx

C3_Filters(response) == dict_get(response.doc, "filters", JObj(<<>>))

C3_IsObject(response) == response.kind = "json" /\ response.doc.t = "dict"

\* the JSON types each filter key is declared to hold
C3_Declared(k) ==
    CASE k \in {"subtype", "country", "fund_type", "target_segment",
                "documents_not_required", "eligible_nationalities"} -> {"list"}
      [] k = "category" -> {"str", "list"}
      [] k = "language_score_requirements" -> {"dict"}
      [] k \in {"min_age", "max_age"} -> {"int"}
      [] k = "gpa" -> {"int", "float"}
      [] OTHER -> {"bool"}

C3_WrongType(response) ==
    /\ C3_IsObject(response)
    /\ C3_Filters(response).t = "dict"
    /\ \E i \in 1..Len(C3_Filters(response).v) :
           LET pair == C3_Filters(response).v[i]
           IN pair[2].t # "null" /\ pair[2].t \notin C3_Declared(pair[1])

\* a field the normalizer or the schema validation rejects
C3_Rejected(response, table) ==
    /\ C3_IsObject(response)
    /\ C3_Filters(response).t = "dict"
    /\ LET f == C3_Filters(response)
           c == normalize_value(or_list(dict_get(f, "country", JNull)), table)
           n == normalize_value(or_list(dict_get(f, "eligible_nationalities", JNull)),
                                table)
       IN \/ c.exc # ""
          \/ n.exc # ""
          \/ \E k \in DOMAIN EmptyConstraints : ~fields_of(f, c.value, n.value)[k].ok

\* the provider outcomes other than a wrongly typed field that the claim lists
C3_Broken(response) ==
    \/ response.kind = "error"
    \/ response.kind = "text"
    \/ response.kind = "json" /\ response.doc.t # "dict"
    \/ C3_IsObject(response) /\ C3_Filters(response).t # "dict"
    \/ /\ C3_IsObject(response)
       /\ dict_get(response.doc, "semantic_query", JStr(<<>>)).t = "null"

\* the last response request r got counted as a failure of its provider
C3_TreatedAsFailure(r) ==
    \/ req[r].pc = "awaiting" /\ req[r].failed = 1 /\ Len(req[r].calls) = 2
    \/ /\ req[r].pc = "done" /\ req[r].failed = 2
       /\ req[r].result.kind = "returned" /\ req[r].result.degraded

\* C3 as claimed: understand never raises because of a provider, and a network
\* error, non-JSON text, JSON that is not an object, a filters value that is
\* null or not an object, a filter field of the wrong type, or a null
\* semantic_query counts as that provider's failure.
C3_AnyWrongTypeIsFailure ==
    \A r \in Reqs :
        /\ req[r].result.kind # "raised"
        /\ (req[r].response # 0 /\ (\/ C3_Broken(Responses[req[r].response])
                                    \/ C3_WrongType(Responses[req[r].response])))
               => C3_TreatedAsFailure(r)

\* C3 as amended: understand never raises because of a provider, and a network
\* error, non-JSON text, JSON that is not an object, a filters value that is
\* null or not an object, a filter field the normalizer or the schema
\* validation rejects, or a null semantic_query counts as that provider's
\* failure; a wrongly typed value that validation coerces or that the
\* normalizer iterates is a success.
C3_NeverRaises ==
    \A r \in Reqs :
        /\ req[r].result.kind # "raised"
        /\ req[r].response # 0 =>
               IF \/ C3_Broken(Responses[req[r].response])
                  \/ C3_Rejected(Responses[req[r].response], LOOKUP)
               THEN C3_TreatedAsFailure(r)
               ELSE /\ req[r].pc = "done"
                    /\ req[r].result.kind = "returned"
                    /\ ~req[r].result.degraded

\* both providers have failed, the second one by answering with a null
\* semantic_query: the request ended with the degraded result
C3_Witness ==
    \E r \in Reqs :
        /\ req[r].pc = "done"
        /\ req[r].failed = 2
        /\ req[r].result.kind = "returned"
        /\ req[r].result.degraded
        /\ req[r].response # 0
        /\ C3_IsObject(Responses[req[r].response])
        /\ dict_get(Responses[req[r].response].doc, "semantic_query", JStr(<<>>)).t
               = "null"

\* C4: the n-th call to start (n from 0) tries provider n mod 2 first, so two
\* consecutive calls never share a primary, and the counter has advanced once
\* for every call started, whatever became of the call.
C4_RoundRobin ==
    /\ call_count = Len(started)
    /\ \A n \in 1..Len(started) : started[n] = (n - 1) % 2
    /\ \A n \in 1..(Len(started) - 1) : started[n] # started[n + 1]

\* three calls were started, two of them are in flight at once, one already
\* failed over and an earlier one has degraded and gone
C4_Witness ==
    /\ Len(started) = 3
    /\ req[1].pc = "awaiting" /\ req[2].pc = "awaiting"
    /\ req[1].failed = 1
    /\ req[1].primary_idx # req[2].primary_idx

(***************************************************************************)
(* Properties of the normalizer                                            *)
(***************************************************************************)
\* C6: normalize is idempotent: for every input x, normalizing normalize(x)
\* again returns normalize(x).
C6_Idempotent ==
    \A x \in Inputs :
        LET r1 == normalize_country(x, LOOKUP)
            r2 == normalize_country(r1.ret, r1.table)
        IN r2.ret = r1.ret

C7_Key(x) == lower(WHITESPACE_sub(strip(x)))

C7_WithoutThe(k) ==
    IF Len(k) >= 2 /\ k[1] = L("the") /\ k[2] = SP THEN SubSeq(k, 3, Len(k)) ELSE k

C7_FuzzyHit(x) == C7_Key(x) \in FuzzyKeys /\ fuzzy[C7_Key(x)] # 0

C7_Expected(x, table) ==
    LET k == C7_Key(x)
        top == registry[fuzzy[k]].name
    IN CASE k \in DOMAIN table -> table[k]
         [] C7_WithoutThe(k) \in DOMAIN table -> table[C7_WithoutThe(k)]
         [] C7_FuzzyHit(x) ->
                IF lower(top) \in DOMAIN table THEN table[lower(top)] ELSE top
         [] OTHER -> title(WHITESPACE_sub(strip(x)))

\* C7: normalize never raises and returns, first match winning, the exact
\* lookup value, the lookup value without a leading "the ", the alias-resolved
\* top fuzzy hit, or the title-cased whitespace-collapsed input; a fuzzy search
\* that finds nothing is a miss.
C7_TotalFirstMatch ==
    last.op = "normalize_country" =>
        /\ last.exc = ""
        /\ last.ret = C7_Expected(last.arg, last.before)

\* a call that missed the table twice and the fuzzy search, and echoed its input
C7_Witness ==
    /\ last.op = "normalize_country"
    /\ last.exc = ""
    /\ last.arg = <<SP, L("the"), SP, SP, U("xyz")>>
    /\ last.ret = <<T("the"), SP, T("xyz")>>
    /\ ~C7_FuzzyHit(last.arg)

\* the value normalize returns for each entry of l in turn
RECURSIVE C8_Values(_, _)
C8_Values(l, table) ==
    IF l = <<>> THEN <<>>
    ELSE LET r == normalize_country(Head(l), table)
         IN <<r.ret>> \o C8_Values(Tail(l), r.table)

C8_First(vals, v) == CHOOSE i \in 1..Len(vals) : vals[i] = v /\ \A j \in 1..(i - 1) : vals[j] # v

\* C8: normalize_many(null) is null, normalize_many([]) is []; otherwise the
\* output holds the normalized entries without repetition, each canonical
\* value at the position of its first occurrence.
C8_NormalizeMany ==
    (last.op = "normalize_countries" /\ last.exc = "") =>
        IF last.arg = None THEN last.ret = None
        ELSE /\ last.ret # None
             /\ LET out == last.ret.some
                    vals == C8_Values(last.arg.some, last.before)
                IN /\ last.arg.some = <<>> => out = <<>>
                   /\ \A i, j \in 1..Len(out) : i # j => out[i] # out[j]
                   /\ { out[i] : i \in 1..Len(out) } = { vals[i] : i \in 1..Len(vals) }
                   /\ \A i, j \in 1..Len(out) :
                          i < j => C8_First(vals, out[i]) < C8_First(vals, out[j])

\* two different spellings of one country were merged into one entry
C8_Witness ==
    /\ last.op = "normalize_countries"
    /\ last.arg = Some(<< <<L("us")>>, <<U("usa")>> >>)
    /\ last.ret = Some(<< <<U("usa")>> >>)

\* C9: every hand-curated alias, and the lowercase form of every hand-curated
\* canonical name, maps to its hand-curated canonical name whatever the
\* registry contains, at import and after every runtime write.
C9_CustomNeverOverwritten ==
    \A i \in 1..Len(CUSTOM_ALIASES) :
        LET e == CUSTOM_ALIASES[i]
        IN /\ lower(e.canonical) \in DOMAIN LOOKUP
           /\ LOOKUP[lower(e.canonical)] = e.canonical
           /\ \A j \in 1..Len(e.aliases) :
                  /\ lower(e.aliases[j]) \in DOMAIN LOOKUP
                  /\ LOOKUP[lower(e.aliases[j])] = e.canonical

\* the registry holds a country whose ISO code is a hand-curated alias
C9_Witness ==
    \E i \in 1..Len(registry) :
        /\ lower(registry[i].alpha_2) = <<L("us")>>
        /\ LOOKUP[<<L("us")>>] = <<U("usa")>>
        /\ LOOKUP[<<L("us")>>] # registry[i].name
        /\ LOOKUP[lower(registry[i].official_name)] = <<U("usa")>>


(***************************************************************************)
(* Properties of the filter compiler (SpecCompiler)                        *)
(***************************************************************************)
\* C5: compile applied to a Constraints in which every field is
\* unconstrained (all lists and the score map empty, all optionals absent)
\* returns "absent" (None), not a present filter with empty must / must_not.
C5_AllEmptyIsAbsent ==
    last.op = "build_qdrant_filter" /\ AllUnconstrained(last.constraints)
        => last.ret = None

\* the all-empty Constraints has been compiled, and to no filter
C5_Witness ==
    /\ last.op = "build_qdrant_filter"
    /\ last.constraints = EmptyConstraints
    /\ last.ret = None

C10_OnlyAges(c) ==
    /\ c.min_age # None
    /\ c.max_age # None
    /\ [c EXCEPT !.min_age = None, !.max_age = None] = EmptyConstraints

C10_NoneOrAtMost(stored, a) == stored.p \in {"missing", "null"} \/ stored.v <= a
C10_NoneOrAtLeast(stored, b) == stored.p \in {"missing", "null"} \/ stored.v >= b

\* C10: for min_age = a and max_age = b the compiled filter admits a
\* candidate exactly when (its min_age field is absent/null or min_age <= a)
\* and (its max_age field is absent/null or max_age >= b); with a = b = 16
\* it admits a candidate with no age fields and one with min_age = 16 /
\* max_age = 16, and rejects one with min_age = 18.
C10_AgeFilter ==
    last.op = "search" /\ C10_OnlyAges(last.constraints)
        => (last.admitted <=>
                /\ C10_NoneOrAtMost(last.payload.min_age, last.constraints.min_age.some)
                /\ C10_NoneOrAtLeast(last.payload.max_age, last.constraints.max_age.some))


\* the constraints populate the one field k and nothing else
OnlyField(c, k) == c[k] # EmptyConstraints[k] /\ [c EXCEPT ![k] = EmptyConstraints[k]] = EmptyConstraints

\* the records of a stored collection (none when the key is absent or null)
StoredItems(stored) == IF stored.p = "list" THEN stored.v ELSE <<>>

\* one single exam record names a listed exam (lowercased) with a score
\* strictly above the user's score for that exam
C11_Exceeds(scores, requirements) ==
    \E i \in 1..Len(scores), j \in 1..Len(requirements) :
        /\ scores[i].name.v = lower(requirements[j][1])
        /\ scores[i].score.v > requirements[j][2]

\* C11: for language_score_requirements = {exam: score, ...} the compiled
\* filter rejects a candidate exactly when one single record of its nested
\* exam-score collection has the name of a listed exam (lowercased) and a
\* score strictly greater than the user's score for that exam; no records,
\* records for other exams only, the same exam at or below the user's score,
\* or a higher score on another record than the named one, are admitted.
C11_LanguageScores ==
    last.op = "search" /\ OnlyField(last.constraints, "language_score_requirements")
        => (~last.admitted <=>
                C11_Exceeds(StoredItems(last.payload.exam_scores),
                            last.constraints.language_score_requirements))

\* the user's {"IELTS": 6.5} met a candidate whose records are ielts 6.0 and
\* toefl 100, which was admitted
C11_Witness ==
    /\ last.op = "search"
    /\ last.constraints.language_score_requirements = << <<<<U("ielts")>>, 65>> >>
    /\ last.payload.exam_scores =
           StoredList(<<ExamScore(<<L("ielts")>>, 60), ExamScore(<<L("toefl")>>, 1000)>>)
    /\ last.admitted


\* the stored collection has a member among the values
ContainsAny(stored, values) ==
    \E i \in 1..Len(StoredItems(stored)), j \in 1..Len(values) :
        StoredItems(stored)[i] = values[j]

\* C12: for a non-empty eligible_nationalities set N the compiled filter
\* admits a candidate exactly when its eligible-nationality set contains the
\* sentinel "all" or at least one member of N; a candidate listing only
\* nationalities outside N is rejected.
C12_Nationalities ==
    last.op = "search" /\ OnlyField(last.constraints, "eligible_nationalities")
        => (last.admitted <=>
                ContainsAny(last.payload.eligible_nationalities,
                            <<<<L("all")>>>> \o last.constraints.eligible_nationalities))

\* the user's ["Egypt"] met a candidate open to "all", which was admitted
C12_Witness ==
    /\ last.op = "search"
    /\ last.constraints.eligible_nationalities = <<<<T("egypt")>>>>
    /\ last.payload.eligible_nationalities = StoredList(<<<<L("all")>>>>)
    /\ last.admitted

\* C13: for documents_not_required = D the compiled filter rejects every
\* candidate whose documents_required list contains any member of D, and
\* (nothing else being constrained) admits every candidate whose list
\* contains none of them.
C13_Documents ==
    last.op = "search" /\ last.constraints.documents_not_required # <<>>
        => /\ ContainsAny(last.payload.documents_required,
                          last.constraints.documents_not_required) => ~last.admitted
           /\ OnlyField(last.constraints, "documents_not_required")
              /\ ~ContainsAny(last.payload.documents_required,
                              last.constraints.documents_not_required) => last.admitted

\* the user's ["cv", "transcript"] met a candidate requiring a transcript
\* only, which was rejected
C13_Witness ==
    /\ last.op = "search"
    /\ last.constraints.documents_not_required = <<<<L("cv")>>, <<L("transcript")>>>>
    /\ last.payload.documents_required = StoredList(<<<<L("transcript")>>>>)
    /\ ~last.admitted


\* C14: for gpa = g the compiled filter admits a candidate exactly when its
\* gpa field is absent/null or 0 <= gpa <= g; a candidate requiring a GPA
\* above g is rejected.
C14_Gpa ==
    last.op = "search" /\ OnlyField(last.constraints, "gpa")
        => (last.admitted <=>
                \/ last.payload.gpa.p \in {"missing", "null"}
                \/ /\ 0 <= last.payload.gpa.v
                   /\ last.payload.gpa.v <= last.constraints.gpa.some)

PlainFields == {"subtype", "category", "country", "fund_type", "target_segment"}

\* the plain fields the constraints populate, in the order they are compiled
C15_Populated(c) ==
    SelectSeq(FieldOrder, LAMBDA k : k \in PlainFields /\ c[k] # <<>>)

\* what a populated plain field is claimed to compile to
C15_Condition(k, values) ==
    IF Len(values) = 1 THEN MatchValue(k, values[1])
    ELSE Filter(None, Some([i \in 1..Len(values) |-> MatchValue(k, values[i])]), None)

\* the candidate's field k holds one of the values
C15_Matches(payload, k, values) ==
    \E j \in 1..Len(values) :
        \/ payload[k].p = "value" /\ payload[k].v = values[j]
        \/ payload[k].p = "list" /\ \E i \in 1..Len(payload[k].v) : payload[k].v[i] = values[j]

C15_OnlyPlain(c) ==
    [k \in DOMAIN c |-> IF k \in PlainFields THEN <<>> ELSE c[k]] = EmptyConstraints

\* C15: plain list fields (subtype, category, fund_type, target_segment and
\* country) compile so that values inside one field are OR'd and different
\* fields are AND'd: one value gives a direct equality condition in the outer
\* must, several values give one should group that is a single member of the
\* outer must; a candidate is admitted only if, for every populated plain
\* field, it matches at least one of that field's values.
C15_PlainFields ==
    /\ last.op = "build_qdrant_filter" /\ C15_OnlyPlain(last.constraints)
       /\ C15_Populated(last.constraints) # <<>>
           => last.ret = Some(Filter(Some([n \in 1..Len(C15_Populated(last.constraints)) |->
                                              C15_Condition(C15_Populated(last.constraints)[n],
                                                            last.constraints[C15_Populated(last.constraints)[n]])]),
                                     None, None))
    /\ last.op = "search" /\ last.admitted
           => \A k \in PlainFields :
                  last.constraints[k] # <<>>
                      => C15_Matches(last.payload, k, last.constraints[k])
    /\ last.op = "search" /\ C15_OnlyPlain(last.constraints) /\ ~last.admitted
           => \E k \in PlainFields :
                  /\ last.constraints[k] # <<>>
                  /\ ~C15_Matches(last.payload, k, last.constraints[k])

\* subtype ["masters", "phd"] and country ["USA"] met a phd in the USA, which
\* was admitted through a should group and a direct condition
C15_Witness ==
    /\ last.op = "search"
    /\ last.constraints.subtype = <<<<L("masters")>>, <<L("phd")>>>>
    /\ last.constraints.country = <<<<U("usa")>>>>
    /\ last.payload.subtype = Stored(<<L("phd")>>)
    /\ last.payload.country = Stored(<<U("usa")>>)
    /\ last.admitted
    /\ Len(last.qdrant_filter.some.must.some) = 2

BoolFields == {"is_remote", "has_document_requirements", "has_language_requirements", "has_fee"}

\* the conditions of the outer must that test field k
C16_On(ret, k) ==
    IF ret = None \/ ret.some.must = None THEN <<>>
    ELSE SelectSeq(ret.some.must.some, LAMBDA cond : cond.type = "match" /\ cond.key = k)

\* C16: each boolean scalar field (is_remote, has_document_requirements,
\* has_language_requirements, has_fee) that is present compiles to one
\* equality condition on that field in the outer must, for the value false
\* exactly as for the value true; only an absent (null) boolean is skipped.
C16_Booleans ==
    last.op = "build_qdrant_filter"
        => \A k \in BoolFields :
               C16_On(last.ret, k) =
                   IF last.constraints[k] = None THEN <<>>
                   ELSE <<MatchValue(k, last.constraints[k].some)>>

\* is_remote = false has been compiled to a filter with an is_remote condition
C16_Witness ==
    /\ last.op = "build_qdrant_filter"
    /\ last.constraints.is_remote = Some(FALSE)
    /\ last.constraints.has_fee = Some(TRUE)
    /\ C16_On(last.ret, "is_remote") = <<MatchValue("is_remote", FALSE)>>


(***************************************************************************)
(* Properties of the Constraints understand returns (Spec)                 *)
(***************************************************************************)
\* C17: in every Constraints returned by understand, every key of
\* language_score_requirements is lowercase, whatever letter case the
\* provider used for the exam name in its response.
C17_LowercaseExamKeys ==
    \A r \in Reqs :
        req[r].result.kind = "returned"
            => \A i \in 1..Len(req[r].result.value.constraints.language_score_requirements) :
                   LET exam == req[r].result.value.constraints.language_score_requirements[i][1]
                   IN exam = lower(exam)

\* C18: every result returned by understand for a non-empty raw query has a
\* non-empty semantic_query, on the success path through either provider
\* (also when the provider's JSON gives an empty or missing semantic_query)
\* and on the degraded path.
C18_NonEmptySemanticQuery ==
    \A r \in Reqs :
        req[r].result.kind = "returned" /\ req[r].user_query # <<>>
            => req[r].result.value.semantic_query # <<>>

\* the filters object of a response that has one (or the default {})
C19_HasFilters(response) == C3_IsObject(response) /\ C3_Filters(response).t = "dict"

\* the category the claim gives for the provider's value
C19_Category(given) ==
    CASE given.t = "str" /\ given.v # <<>> -> <<given.v>>
      [] given.t = "list" -> [i \in 1..Len(given.v) |-> given.v[i].v]
      [] OTHER -> <<>>

C19_Listed(given) ==
    \/ given.t = "null"
    \/ given.t = "str"
    \/ given.t = "list" /\ \A i \in 1..Len(given.v) : given.v[i].t = "str"

\* every key other than category is missing or null, category has one of the
\* listed shapes, and semantic_query is a string or missing
C19_OnlyDefaults(response) ==
    /\ C19_HasFilters(response)
    /\ \A i \in 1..Len(C3_Filters(response).v) :
           \/ C3_Filters(response).v[i][1] = "category"
           \/ C3_Filters(response).v[i][2].t = "null"
    /\ C19_Listed(dict_get(C3_Filters(response), "category", JNull))
    /\ dict_get(response.doc, "semantic_query", JStr(<<>>)).t = "str"

\* C19: on a successful provider response, filters.category given as a bare
\* non-empty string s yields category [s], given as a list yields that list,
\* and missing, null or empty yields []; every other filter key that is
\* missing or null yields the empty list / empty map for collection fields
\* and absent for optional scalars, never a null collection and never an
\* error.
C19_CategoryAndDefaults ==
    \A r \in Reqs :
        req[r].response # 0 /\ C19_HasFilters(Responses[req[r].response])
            => /\ C19_OnlyDefaults(Responses[req[r].response])
                      => /\ req[r].pc = "done"
                         /\ req[r].result.kind = "returned"
                         /\ ~req[r].result.degraded
               /\ req[r].result.kind = "returned" /\ ~req[r].result.degraded
                      => /\ C19_Listed(dict_get(C3_Filters(Responses[req[r].response]),
                                                "category", JNull))
                             => req[r].result.value.constraints.category =
                                    C19_Category(dict_get(C3_Filters(Responses[req[r].response]),
                                                          "category", JNull))
                         /\ \A k \in DOMAIN EmptyConstraints \ {"category"} :
                                dict_get(C3_Filters(Responses[req[r].response]), k, JNull).t
                                        = "null"
                                    => req[r].result.value.constraints[k] = EmptyConstraints[k]

\* a response with category as a bare string and null for other keys has
\* been returned with category [s] and the defaults
C19_Witness ==
    \E r \in Reqs :
        /\ req[r].result.kind = "returned" /\ ~req[r].result.degraded
        /\ dict_get(C3_Filters(Responses[req[r].response]), "category", JNull).t = "str"
        /\ req[r].result.value.constraints.category = <<<<L("non_academic")>>>>
        /\ req[r].result.value.constraints.target_segment = <<>>
        /\ req[r].result.value.constraints.min_age = None


(***************************************************************************)
(* Properties of the learned cache (SpecNormalizer)                        *)
(***************************************************************************)
\* C20: normalize is deterministic with respect to the learned cache: for
\* every input x, normalize(x) returns the same value in every reachable
\* state of the lookup table, whatever other names were normalized before it
\* (normalize("the X") gives the same result whether or not "X" was
\* fuzzy-resolved and cached earlier).
C20_SameInEveryTable ==
    \A x \in Inputs :
        normalize_country(x, LOOKUP).ret = normalize_country(x, BuildLookup(registry)).ret


\* the keys the last call added to the table
C21_Written == DOMAIN LOOKUP \ DOMAIN last.before

\* the names the last call normalized
C21_Names ==
    IF last.op = "normalize_country" THEN {last.arg}
    ELSE IF last.arg = None THEN {}
    ELSE { last.arg.some[i] : i \in 1..Len(last.arg.some) }

\* C21: the alias table is append-only at runtime: a normalize call writes at
\* most one entry, only after a successful fuzzy resolution and only under
\* the lowercase whitespace-collapsed input key that was absent when the call
\* looked it up; no call changes or removes the value of an existing key, and
\* two callers that resolve the same unseen alias write the same value for it
\* (what a resolution writes does not depend on what was cached before).
C21_AppendOnly ==
    last.op \in {"normalize_country", "normalize_countries"}
        => /\ \A k \in DOMAIN last.before :
                  k \in DOMAIN LOOKUP /\ LOOKUP[k] = last.before[k]
           /\ last.op = "normalize_country" => Cardinality(C21_Written) <= 1
           /\ \A k \in C21_Written :
                  \E x \in C21_Names :
                      /\ k = C7_Key(x)
                      /\ C7_FuzzyHit(x)
                      /\ C7_WithoutThe(k) \notin DOMAIN last.before
                      /\ LOOKUP[k] = ResolveFound(BuildLookup(registry),
                                                  registry[fuzzy[k]].name)
           /\ \A i \in 1..Len(registry) :
                  ResolveFound(LOOKUP, registry[i].name)
                      = ResolveFound(BuildLookup(registry), registry[i].name)

\* a call has cached its fuzzy resolution under its own key
C21_Witness ==
    /\ last.op = "normalize_country"
    /\ C21_Written = {C7_Key(last.arg)}
    /\ last.arg # C7_Key(last.arg)


(***************************************************************************)
(* Properties of cancellation (SpecCancellable)                            *)
(***************************************************************************)
\* from the cancellation on, request r does nothing but return to its caller
C22_StopsThere(r) ==
    /\ ~req[r].cancelled /\ req'[r].cancelled
           => /\ req'[r].pc = "done"
              /\ req'[r].result = [kind |-> "raised", exc |-> "CancelledError"]
              /\ req'[r].calls = req[r].calls
              /\ req'[r].inflight = {}
              /\ call_count' = call_count
              /\ LOOKUP' = LOOKUP
    /\ req[r].cancelled => req'[r] = req[r] \/ req'[r] = Idle

\* C22 as claimed: if the caller cancels a request while a provider call is
\* in flight, understand stops there (no attempt on the other provider, no
\* degraded result), and the cancelled request leaves no process-wide state
\* changed: when it is the only request the process has seen, the call
\* counter and the alias table are as they were at start-up.
C22_LeavesNoStateChanged ==
    /\ [][\A r \in Reqs : C22_StopsThere(r)]_vars
    /\ [](\A r \in Reqs :
              req[r].cancelled /\ Len(started) = 1
                  => call_count = 0 /\ LOOKUP = BuildLookup(registry))

\* C22 as amended: if the caller cancels a request while a provider call is
\* in flight, understand stops there: it does not attempt the other provider,
\* does not return a degraded result, and changes no process-wide state from
\* the cancellation on.
C22_CancelStopsThere == [][\A r \in Reqs : C22_StopsThere(r)]_vars

\* a request was cancelled during its second provider call, after the first
\* provider had failed
C22_Witness ==
    \E r \in Reqs :
        /\ req[r].cancelled
        /\ req[r].failed = 1
        /\ Len(req[r].calls) = 2
        /\ req[r].result = [kind |-> "raised", exc |-> "CancelledError"]


(***************************************************************************)
(* Properties of the compiled tree (SpecCompiler)                          *)
(***************************************************************************)
\* the payload key the conditions of a field test
C23_PayloadKey(field) ==
    CASE field = "documents_not_required" -> "documents_required"
      [] field = "language_score_requirements" -> "exam_scores"
      [] OTHER -> field

\* the payload key a member of must / must_not tests
C23_KeyOf(cond) ==
    IF cond.type = "filter" THEN cond.should.some[1].key ELSE cond.key

\* the members of must and must_not of a compiled result
C23_Members(ret) ==
    IF ret = None THEN <<>>
    ELSE (IF ret.some.must = None THEN <<>> ELSE ret.some.must.some)
         \o (IF ret.some.must_not = None THEN <<>> ELSE ret.some.must_not.some)

C23_Populated(c, field) == c[field] # EmptyConstraints[field]

\* C23: compile returns a present filter tree whenever at least one field is
\* populated, including a boolean set to false and a numeric field (min_age,
\* max_age, gpa) set to 0: every populated field contributes at least one
\* condition to must or must_not, every unpopulated field contributes none,
\* and a present tree never has both must and must_not empty.
C23_PresentTree ==
    last.op = "build_qdrant_filter"
        => /\ last.ret # None <=> \E f \in DOMAIN EmptyConstraints : C23_Populated(last.constraints, f)
           /\ \A f \in DOMAIN EmptyConstraints :
                  C23_Populated(last.constraints, f)
                      <=> \E i \in 1..Len(C23_Members(last.ret)) :
                              C23_KeyOf(C23_Members(last.ret)[i]) = C23_PayloadKey(f)
           /\ last.ret # None
                  => /\ C23_Members(last.ret) # <<>>
                     /\ last.ret.some.must # Some(<<>>)
                     /\ last.ret.some.must_not # Some(<<>>)

\* is_remote = false together with gpa = 0 has been compiled to a present tree
C23_Witness ==
    /\ last.op = "build_qdrant_filter"
    /\ last.constraints.is_remote = Some(FALSE)
    /\ last.constraints.gpa = Some(0)
    /\ last.ret # None
    /\ Len(C23_Members(last.ret)) = 2


(***************************************************************************)
(* Properties of the country fields understand returns (Spec)              *)
(***************************************************************************)
\* the whole country-name strings a provider supplied for a key: the bare
\* string itself, or the strings of the list
C24_Supplied(given) ==
    CASE given.t = "str" -> {given.v}
      [] given.t = "list" -> { given.v[i].v : i \in { n \in 1..Len(given.v) : given.v[n].t = "str" } }
      [] OTHER -> {}

\* C24: on a successful extraction, each value of country and of
\* eligible_nationalities in the returned Constraints is the normalization
\* of one whole country-name string supplied by the provider; a response that
\* gives country (or eligible_nationalities) as a bare string is rejected as
\* a provider failure or repaired into a one-element list, never split into
\* one entry per character.
C24_WholeNames ==
    \A r \in Reqs :
        (/\ req[r].result.kind = "returned" /\ ~req[r].result.degraded
         /\ C19_HasFilters(Responses[req[r].response]))
            => \A k \in {"country", "eligible_nationalities"} :
                   \A i \in 1..Len(req[r].result.value.constraints[k]) :
                       \E name \in C24_Supplied(dict_get(C3_Filters(Responses[req[r].response]),
                                                         k, JNull)) :
                           req[r].result.value.constraints[k][i]
                               = normalize_country(name, LOOKUP).ret


(***************************************************************************)
(* Properties of the listing endpoint (SpecListing)                        *)
(***************************************************************************)
\* C25: a GET /api/opportunities request with valid parameters against a
\* working store returns the paginated listing, with total_pages =
\* ceil(total / per_page) and 0 when total is 0; it does not end in a 500
\* response.
C25_ListingReturned ==
    last.op = "get_opportunities"
        => /\ last.response.status = 200
           /\ last.response.body.pagination.total = last.total
           /\ last.response.body.pagination.total_pages * last.per_page >= last.total
           /\ last.response.body.pagination.total_pages * last.per_page
                  < last.total + last.per_page

====
